---- MODULE Spec2Model ----
(***************************************************************************)
(* Model of the application registry of exe_manager.py (WineExeManager):   *)
(* the flat list `exes`, the category index `categories`, the list widget  *)
(* `exe_list` that refresh_list rebuilds, the store file exes.json with    *)
(* its .bak backup, and the bottle directories.                            *)
(*                                                                         *)
(* Positions are 0-based as in the Python code: position i of `exes` is    *)
(* exes[i + 1] here.                                                       *)
(***************************************************************************)
EXTENDS Integers, Sequences, FiniteSets, TLC

VARIABLES
    exes,        \* self.exes: sequence of entry records
    categories,  \* self.categories: insertion-ordered dict, as a sequence of [name, members]
    exe_list,    \* self.exe_list: rows of the list widget, as refresh_list left them
    disk,        \* content of exes.json: NoFile, Corrupt or a document
    backup,      \* exes.json.bak, by the kind of content it holds
    bottles,     \* bottle directories that exist under bottles_dir (by number N of bottle_N)
    last,        \* the last handler that got past its dialogs, and how it ended
    faults,      \* filesystem failures the environment may still inject
    ops,         \* registry-changing handler runs still allowed in this behaviour
    callers,     \* position and locals of each interleaved add_exe call
    host,        \* what the machine holds: Wine binaries, libraries, executables
    launch,      \* position, locals and outcome of the launch_selected call
    spawned,     \* the processes subprocess.Popen has started, oldest first
    installer    \* the Install Wine button, the installer thread and its signal

vars == <<exes, categories, exe_list, disk, backup, bottles, last, faults, ops, callers,
          host, launch, spawned, installer>>

\* what the handlers of the registry neither read nor write
launchVars == <<host, launch, spawned, installer>>

(* ------------------------------- bounds -------------------------------- *)

MaxStored == 2     \* the store found at startup holds at most this many entries
MaxOps == 3        \* registry-changing handler runs in a behaviour of Spec
MaxFaultyOps == 2  \* the same, in a behaviour of SpecFaults
MaxFaults == 1     \* failing filesystem calls in a behaviour of SpecFaults
MaxPersistOps == 2 \* the same, in a behaviour of SpecPersist
MaxRefs == 2       \* a member list of SpecRefresh holds at most this many references
MaxLaunches == 2   \* launch_selected calls in a behaviour of SpecLaunch
MaxText == 3       \* launch options of SpecArgs hold at most this many characters
MaxInstalls == 2   \* download_wine calls in a behaviour of SpecInstall
MaxLegacy == 3     \* a legacy store holds at most this many entries
MaxSessionOps == 1 \* registry-changing handler runs in a behaviour of SpecSession

(* ------------------------------ constants ------------------------------ *)

BuiltIn == <<"Games", "Productivity", "Other">>

\* A category name that is not built in, for callers that pass a new name.
ExtraCategory == "Work"

CategoryNames == {BuiltIn[k] : k \in DOMAIN BuiltIn} \cup {ExtraCategory}

\* Files the file dialog can return: its filter offers "EXE files (*.exe)"
\* and "All files (*.*)".
Paths == {"game.exe", "notes.txt"}

HasExeExtension(p) == p = "game.exe"

\* os.path.basename(filepath).replace(".exe", "")
BaseName(p) == IF p = "game.exe" THEN "game" ELSE p

\* contents of a store file: absent, truncated or unparsable, or a document
NoFile == [kind |-> "NoFile"]
Corrupt == [kind |-> "Corrupt"]
None == -1

Callers == {"t1", "t2"}

(* --------------------------- the category dict ------------------------- *)

InitialCategories ==
    [k \in DOMAIN BuiltIn |-> [name |-> BuiltIn[k], members |-> <<>>]]

Keys(cats) == {cats[k].name : k \in DOMAIN cats}

KeyPos(cats, n) == CHOOSE k \in DOMAIN cats : cats[k].name = n

\* self.categories[n]
Members(cats, n) == cats[KeyPos(cats, n)].members

\* the assignment self.categories[n] = m, dropping the key when m is empty
SetMembersDroppingEmpty(cats, n, m) ==
    IF m = <<>> /\ n \in {cats[k].name : k \in DOMAIN cats}
    THEN SelectSeq(cats, LAMBDA c : c.name # n)
    ELSE IF n \in {cats[k].name : k \in DOMAIN cats}
         THEN [cats EXCEPT ![CHOOSE k \in DOMAIN cats : cats[k].name = n].members = m]
         ELSE Append(cats, [name |-> n, members |-> m])

\* self.categories[n] = m  (a new key goes last, an existing key keeps its place)
SetMembers(cats, n, m) ==
    IF n \in Keys(cats)
    THEN [cats EXCEPT ![KeyPos(cats, n)].members = m]
    ELSE Append(cats, [name |-> n, members |-> m])

Range(s) == {s[k] : k \in DOMAIN s}

(* ----------------------------- list helpers ---------------------------- *)

\* list.remove(x): removes the first occurrence of x (the caller checks x is in s)
FirstPos(s, x) == CHOOSE k \in DOMAIN s : s[k] = x /\ \A j \in 1..(k - 1) : s[j] # x

ListRemove(s, x) ==
    LET k == FirstPos(s, x)
    IN  SubSeq(s, 1, k - 1) \o SubSeq(s, k + 1, Len(s))

\* del s[i] for a 0-based position i with 0 <= i < len(s)
DelAt(s, i) == SubSeq(s, 1, i) \o SubSeq(s, i + 2, Len(s))

(* ----------------------------- refresh_list ---------------------------- *)

HeaderRow == [kind |-> "header", data |-> None]
SpacerRow == [kind |-> "spacer", data |-> None]
ItemRow(exe_index) == [kind |-> "item", data |-> exe_index]

\* where the loop stopped on self.exes[exe_index] raising IndexError
RaisedRow == [kind |-> "raised", data |-> None]

\* the rows of one category's members: a position >= len(exes) is skipped;
\* self.exes[exe_index] takes a negative position from the end of the list
\* and raises IndexError below -len(exes)
RECURSIVE ItemRows(_, _, _)
ItemRows(members, k, n) ==
    IF k > Len(members) THEN <<>>
    ELSE (IF members[k] >= n THEN <<>>
          ELSE IF members[k] < -n THEN <<RaisedRow>>
          ELSE <<ItemRow(members[k])>>)
         \o ItemRows(members, k + 1, n)

\* for each category in dict order: header, one row per member, spacer
RECURSIVE CategoryRows(_, _, _)
CategoryRows(cats, k, ex) ==
    IF k > Len(cats) THEN <<>>
    ELSE <<HeaderRow>> \o ItemRows(cats[k].members, 1, Len(ex)) \o <<SpacerRow>>
         \o CategoryRows(cats, k + 1, ex)

\* the loop runs inside one try: an exception ends it at the row it reached
RefreshRaises(cats, ex) == \E k \in DOMAIN CategoryRows(cats, 1, ex) :
                              CategoryRows(cats, 1, ex)[k] = RaisedRow

\* the rows added before the exception, all of them when there is none
RefreshList(cats, ex) ==
    LET rows == CategoryRows(cats, 1, ex)
    IN  IF \E k \in DOMAIN rows : rows[k] = RaisedRow
        THEN SubSeq(rows, 1, (CHOOSE k \in DOMAIN rows :
                                 /\ rows[k] = RaisedRow
                                 /\ \A j \in 1..(k - 1) : rows[j] # RaisedRow) - 1)
        ELSE rows

\* rows the user can select (0-based): headers and spacers are not selectable
SelectableRows(rows) == {r \in 0..(Len(rows) - 1) : rows[r + 1].kind = "item"}

(* ------------------------------ save_exes ------------------------------ *)

\* json.dump writes an entry dict as an object whose members follow the
\* insertion order of exe_info; the object is kept as the tuple of its values
EntryToJson(e) ==
    <<e.name, e.path, e.bottle, e.category, e.custom_name, e.launch_options, e.notes>>

\* the categories dict becomes an object: its <<key, value>> members in order
CategoriesToJson(cats) == [k \in 1..Len(cats) |-> <<cats[k].name, cats[k].members>>]

\* json.dump({'exes': self.exes, 'categories': self.categories}, f, indent=2)
Document(ex, cats) ==
    [kind |-> "document",
     exes |-> [k \in 1..Len(ex) |-> EntryToJson(ex[k])],
     categories |-> CategoriesToJson(cats)]

BackupOutcomes == {"ok", "none", "partial"}
WriteOutcomes == {"ok", "open_fail", "write_fail"}

\* number of failing filesystem calls in the outcome pair o of a save
FaultCount(o) == (IF o[1] # "ok" THEN 1 ELSE 0) + (IF o[2] # "ok" THEN 1 ELSE 0)

\* the filesystem outcomes a save can meet: <<backup copy, write>>; failures
\* only while the budget lasts, and no copy is attempted without a store file
SaveOutcomes ==
    {o \in BackupOutcomes \X WriteOutcomes :
        /\ FaultCount(o) <= faults
        /\ (disk = NoFile => o[1] = "ok")}

\* a save that reports only the failure of open, not of json.dump
SaveFailedAtOpen(o) == o[2] = "open_fail"

SaveFailed(o) == o[2] # "ok"

\* what a copy of file content d holds: absent, corrupt, or a complete document
KindOf(d) == [kind |-> d.kind]

\* shutil.copy2(exes_file, backup_file), attempted only when exes_file exists;
\* a failed copy is a warning and the save goes on
BackupAfter(bk) ==
    IF disk = NoFile THEN backup
    ELSE CASE bk = "ok" -> KindOf(disk)
           [] bk = "none" -> backup
           [] bk = "partial" -> Corrupt

\* open(exes_file, 'w') truncates, json.dump writes the document
DiskAfter(ex, cats, sv) ==
    CASE sv = "ok" -> Document(ex, cats)
      [] sv = "open_fail" -> disk
      [] sv = "write_fail" -> Corrupt

SaveExes(ex, cats, o) ==
    /\ backup' = BackupAfter(o[1])
    /\ disk' = DiskAfter(ex, cats, o[2])
    /\ faults' = faults - FaultCount(o)

Outcome(op, how) == [op |-> op, outcome |-> how]

(* ------------------------------- add_exe ------------------------------- *)

\* category_combo.currentText(): one of the keys of self.categories the combo
\* box was filled with, the empty text when there is none
ComboItems(cats) == IF cats = <<>> THEN {""} ELSE Keys(cats)

\* the return value of select_category_dialog when the dialog was closed with
\* OK on current_text, or with Cancel
DialogResult(accepted, current_text) == IF accepted THEN current_text ELSE "Other"

\* what select_category_dialog can return: the combo box offers the keys of
\* self.categories; a rejected dialog and an exception both return "Other"
SelectCategoryDialog(cats) ==
    {DialogResult(accepted, current_text) :
        accepted \in BOOLEAN, current_text \in ComboItems(cats)}

\* bottle_name = f"bottle_{len(self.exes)}"
BottleName(ex) == Len(ex)

ExeInfo(filepath, category, bottle_name) ==
    [name |-> BaseName(filepath), path |-> filepath, bottle |-> bottle_name,
     category |-> category, custom_name |-> BaseName(filepath),
     launch_options |-> <<>>, notes |-> ""]

\* if category not in self.categories: self.categories[category] = []
WithCategory(cats, category) ==
    IF category \in Keys(cats) THEN cats ELSE SetMembers(cats, category, <<>>)

\* self.categories[category].append(new_index)
AppendMember(cats, category, new_index) ==
    SetMembers(cats, category, Append(Members(cats, category), new_index))

\* pure part of add_exe: the registry after registering filepath under category
Registered(reg, filepath, category) ==
    LET ex == Append(reg.exes, ExeInfo(filepath, category, BottleName(reg.exes)))
    IN  [exes |-> ex,
         categories |-> AppendMember(WithCategory(reg.categories, category),
                                     category, Len(ex) - 1)]

\* locals of one add_exe call
IdleCall ==
    [pc |-> "idle", filepath |-> "", category |-> "", bottle_name |-> None,
     new_index |-> None]

Idle == [c \in Callers |-> IdleCall]

AddExe(filepath, category, mkdir_ok, o) ==
    /\ UNCHANGED launchVars
    /\ callers = Idle
    /\ UNCHANGED callers
    /\ IF filepath = "" \/ category = ""
       THEN \* no file selected, or no category: returns without a message
            UNCHANGED <<exes, categories, exe_list, disk, backup, bottles, faults, ops, last>>
       ELSE IF ~mkdir_ok
       THEN \* os.makedirs(bottle_path) raises: reported by the handler's except
            /\ last' = Outcome("add_exe", "error")
            /\ faults' = faults - 1
            /\ UNCHANGED <<exes, categories, exe_list, disk, backup, bottles, ops>>
       ELSE LET reg == Registered([exes |-> exes, categories |-> categories],
                                      filepath, category)
                ex == reg.exes
                cats == reg.categories
            IN  /\ ops > 0
                /\ ops' = ops - 1
                /\ bottles' = bottles \cup {BottleName(exes)}
                /\ exes' = ex
                /\ categories' = cats
                /\ SaveExes(ex, cats, o)
                /\ exe_list' = RefreshList(cats, ex)
                /\ last' = Outcome("add_exe",
                                   IF SaveFailed(o) THEN "save_error" ELSE "ok")

(* --------------------------- move_to_category -------------------------- *)

MoveToCategory(exe_index, new_category, o) ==
    /\ UNCHANGED launchVars
    /\ callers = Idle
    /\ UNCHANGED <<callers, bottles>>
    /\ exe_index < Len(exes)
    /\ LET old_category == exes[exe_index + 1].category
       IN       IF old_category \notin Keys(categories)
                THEN \* self.categories[old_category] raises
                     /\ last' = Outcome("move_to_category", "KeyError")
                     /\ UNCHANGED <<exes, categories, exe_list, disk, backup, faults, ops>>
                ELSE IF exe_index \notin Range(Members(categories, old_category))
                THEN \* list.remove(exe_index) raises
                     /\ last' = Outcome("move_to_category", "ValueError")
                     /\ UNCHANGED <<exes, categories, exe_list, disk, backup, faults, ops>>
                ELSE LET removed ==
                             SetMembers(categories, old_category,
                                 ListRemove(Members(categories, old_category), exe_index))
                     IN  IF new_category \notin Keys(removed)
                         THEN \* self.categories[new_category] raises after the removal
                              /\ ops > 0
                              /\ ops' = ops - 1
                              /\ categories' = removed
                              /\ last' = Outcome("move_to_category", "KeyError")
                              /\ UNCHANGED <<exes, exe_list, disk, backup, faults>>
                         ELSE LET cats == AppendMember(removed, new_category, exe_index)
                                  ex == [exes EXCEPT ![exe_index + 1].category = new_category]
                              IN  /\ ops > 0
                                  /\ ops' = ops - 1
                                  /\ categories' = cats
                                  /\ exes' = ex
                                  /\ SaveExes(ex, cats, o)
                                  /\ exe_list' = RefreshList(cats, ex)
                                  /\ last' = Outcome("move_to_category",
                                         IF SaveFailed(o) THEN "save_error" ELSE "ok")

(* ---------------------------- remove_selected -------------------------- *)

\* selected_idx = self.exe_list.row(selected_items[0])
SelectedIdx(rows, row) == row

\* a bounds check that lets the position one past the end through
IndexInRangeOffByOne(ex, i) == i <= Len(ex)

\* self.exes[i] raises IndexError unless i < len(self.exes)
IndexInRange(ex, i) == i < Len(ex)

RemoveSelected(row, reply_yes, o) ==
    /\ UNCHANGED launchVars
    /\ callers = Idle
    /\ UNCHANGED <<callers, bottles, categories>>
    /\ IF row = None
       THEN \* nothing selected: an information box, and nothing else
            UNCHANGED <<exes, exe_list, disk, backup, faults, ops, last>>
       ELSE LET selected_idx == SelectedIdx(exe_list, row)
            IN  IF ~IndexInRange(exes, selected_idx)
                THEN \* self.exes[selected_idx] raises
                     /\ last' = Outcome("remove_selected", "IndexError")
                     /\ UNCHANGED <<exes, exe_list, disk, backup, faults, ops>>
                ELSE IF ~reply_yes
                THEN \* the confirmation was answered No
                     UNCHANGED <<exes, exe_list, disk, backup, faults, ops, last>>
                ELSE LET ex == DelAt(exes, selected_idx)
                     IN  /\ ops > 0
                         /\ ops' = ops - 1
                         /\ exes' = ex
                         /\ SaveExes(ex, categories, o)
                         /\ exe_list' = RefreshList(categories, ex)
                         /\ last' = Outcome("remove_selected",
                                IF SaveFailed(o) THEN "save_error" ELSE "ok")

(* ---------------------------- customize_exe ---------------------------- *)

\* what the three inputs of the dialog can hold at Save: the texts they were
\* filled with, or an edit of all three (the launch options, character by
\* character)
Edited == [custom_name |-> "My Game", launch_options |-> <<"a", " ", "b">>, notes |-> "runs"]

DialogTexts(exe) ==
    {[custom_name |-> exe.custom_name, launch_options |-> exe.launch_options,
      notes |-> exe.notes], Edited}

\* a Save that also writes the display name over the file name
CustomizedRenaming(exe, texts) ==
    [exe EXCEPT !.name = texts.custom_name,
                !.custom_name = texts.custom_name,
                !.launch_options = texts.launch_options,
                !.notes = texts.notes]

Customized(exe, texts) ==
    [exe EXCEPT !.custom_name = texts.custom_name,
                !.launch_options = texts.launch_options,
                !.notes = texts.notes]

CustomizeExe(exe_index, accepted, texts, o) ==
    /\ UNCHANGED launchVars
    /\ callers = Idle
    /\ UNCHANGED <<callers, bottles, categories>>
    /\ IF ~IndexInRange(exes, exe_index)
       THEN \* exe = self.exes[exe_index] raises before the dialog is built
            /\ last' = Outcome("customize_exe", "IndexError")
            /\ UNCHANGED <<exes, exe_list, disk, backup, faults, ops>>
       ELSE IF ~accepted
       THEN \* Cancel: nothing is written
            UNCHANGED <<exes, exe_list, disk, backup, faults, ops, last>>
       ELSE LET ex == [exes EXCEPT ![exe_index + 1] = Customized(@, texts)]
            IN  /\ ops > 0
                /\ ops' = ops - 1
                /\ exes' = ex
                /\ SaveExes(ex, categories, o)
                /\ exe_list' = RefreshList(categories, ex)
                /\ last' = Outcome("customize_exe",
                       IF SaveFailed(o) THEN "save_error" ELSE "ok")

(* ------------------------------ load_exes ------------------------------ *)

\* an entry of a legacy file that carries no "category" key
Absent == "<absent>"

\* json.load gives each object back as a dict with the keys of the file
JsonToEntry(t) ==
    [name |-> t[1], path |-> t[2], bottle |-> t[3], category |-> t[4],
     custom_name |-> t[5], launch_options |-> t[6], notes |-> t[7]]

JsonToExes(js) == [k \in 1..Len(js) |-> JsonToEntry(js[k])]

\* json.load builds the dict member by member: a key met again keeps its
\* place and takes the later value
RECURSIVE JsonToCategories(_, _)
JsonToCategories(js, k) ==
    IF k = 0 THEN <<>>
    ELSE SetMembers(JsonToCategories(js, k - 1), js[k][1], js[k][2])

\* a bare array, as versions without categories wrote it
LegacyDocument(js) == [kind |-> "legacy", exes |-> js]

\* exe.get("category", "Other") without its default
CategoryOfStrict(e) == e.category

\* category = exe.get("category", "Other")
CategoryOf(e) == IF e.category = Absent THEN "Other" ELSE e.category

\* the loop over enumerate(self.exes) of the legacy branch, up to entry k
RECURSIVE RebuildCategories(_, _)
RebuildCategories(ex, k) ==
    IF k = 0 THEN InitialCategories
    ELSE AppendMember(WithCategory(RebuildCategories(ex, k - 1), CategoryOf(ex[k])),
                      CategoryOf(ex[k]), k - 1)

\* load_exes: a dict document gives both keys, a bare array gives the list;
\* a missing file returns []
LoadedExes(d) ==
    IF d.kind \in {"document", "legacy"} THEN JsonToExes(d.exes) ELSE <<>>

\* the body of load_exes with its dict branch rebuilding the categories from
\* the entries, as the legacy branch does
LoadedCategoriesRebuilt(d) ==
    IF d.kind \in {"document", "legacy"}
    THEN RebuildCategories(JsonToExes(d.exes), Len(d.exes))
    ELSE InitialCategories

\* load_exes resetting self.categories to an empty dict when there is no file
LoadedCategoriesCleared(d) ==
    CASE d.kind = "document" -> JsonToCategories(d.categories, Len(d.categories))
      [] d.kind = "legacy" -> RebuildCategories(JsonToExes(d.exes), Len(d.exes))
      [] OTHER -> <<>>

\* self.categories after load_exes: taken from a dict document, rebuilt from
\* the entries of a bare array, left as __init__ set it on a missing file
LoadedCategories(d) ==
    CASE d.kind = "document" -> JsonToCategories(d.categories, Len(d.categories))
      [] d.kind = "legacy" -> RebuildCategories(JsonToExes(d.exes), Len(d.exes))
      [] OTHER -> InitialCategories

\* the store an earlier session left after registering k files under Games
RECURSIVE StoredRegistry(_)
StoredRegistry(k) ==
    IF k = 0 THEN [exes |-> <<>>, categories |-> InitialCategories]
    ELSE Registered(StoredRegistry(k - 1), "game.exe", "Games")

StoredDocument(k) == Document(StoredRegistry(k).exes, StoredRegistry(k).categories)

(* --------------------------- launch_selected --------------------------- *)

\* what find_wine_binary can return: wine_dir/bin/wine, a file named wine
\* deeper in wine_dir, the path `which wine` prints, or None
BundledWine == "wine_dir/bin/wine"
NestedWine == "wine_dir/usr/bin/wine"
SystemWine == "/usr/bin/wine"
NoWine == "None"

\* a file that find_wine_binary tests: not there, there without the execute
\* permission, or there and executable
FileStates == {"absent", "plain", "executable"}

\* os.path.exists(p) and os.access(p, os.X_OK)
Usable(file) == file = "executable"

\* the machines the program can run on: wine_dir/bin/wine, the other files
\* named wine under wine_dir (executable when one of them is), whether
\* `which wine` finds a binary, whether a lib directory stands beside the bin
\* directory of the binary in wine_dir, and which registered files exist
Hosts ==
    [wine_bin : FileStates, nested : FileStates, system : BOOLEAN, lib : BOOLEAN,
     files : SUBSET {"game.exe"}]

\* a machine with Wine installed and every registered file in place
InstalledHost ==
    [wine_bin |-> "executable", nested |-> "absent", system |-> FALSE, lib |-> TRUE,
     files |-> {"game.exe"}]

\* find_wine_binary falling back to the bare command name
FindWineBinaryFallback(h) ==
    IF Usable(h.wine_bin) THEN BundledWine
    ELSE IF Usable(h.nested) THEN NestedWine
    ELSE SystemWine

\* find_wine_binary without its os.access(..., os.X_OK) tests
FindWineBinaryExisting(h) ==
    IF h.wine_bin # "absent" THEN BundledWine
    ELSE IF h.nested # "absent" THEN NestedWine
    ELSE IF h.system THEN SystemWine
    ELSE NoWine

\* wine_dir/bin/wine if executable, else the first executable file named wine
\* that os.walk(wine_dir) meets, else the output of `which wine`, else None
FindWineBinary(h) ==
    IF Usable(h.wine_bin) THEN BundledWine
    ELSE IF Usable(h.nested) THEN NestedWine
    ELSE IF h.system THEN SystemWine
    ELSE NoWine

\* launch_selected without its os.path.exists test
FileExistsUnchecked(h, path) == TRUE

\* os.path.exists(exe_info["path"])
FileExists(h, path) == path \in h.files

\* the library path set whatever binary was found
InWineDirAlways(wine_cmd) == TRUE

\* if self.wine_dir in wine_cmd
InWineDir(wine_cmd) == wine_cmd \in {BundledWine, NestedWine}

Unset == "unset"

\* one Wine prefix for every entry
BottlePathShared(bottle_name) == <<"bottles_dir", 0>>

\* os.path.join(self.bottles_dir, bottle_name)
BottlePath(bottle_name) == <<"bottles_dir", bottle_name>>

\* env = os.environ.copy() with WINEPREFIX set to the bottle of the entry and
\* DYLD_LIBRARY_PATH set for a binary in wine_dir whose lib directory exists;
\* Unset stands for the value inherited from os.environ
Environment(h, exe, wine_cmd) ==
    [WINEPREFIX |-> BottlePath(exe.bottle),
     DYLD_LIBRARY_PATH |-> IF InWineDir(wine_cmd) /\ h.lib THEN "lib" ELSE Unset]

\* str.split(): the words of text from character k on, after the finished
\* words and the characters of the word being read
RECURSIVE SplitFrom(_, _, _, _)
SplitFrom(text, k, word, words) ==
    IF k > Len(text)
    THEN IF word = <<>> THEN words ELSE Append(words, word)
    ELSE IF text[k] = " "
         THEN SplitFrom(text, k + 1, <<>>,
                        IF word = <<>> THEN words ELSE Append(words, word))
         ELSE SplitFrom(text, k + 1, Append(word, text[k]), words)

Split(text) == SplitFrom(text, 1, <<>>, <<>>)

\* the launch options handed over as one argument
LaunchOptionsUnsplit(exe) ==
    IF exe.launch_options = <<>> THEN <<>> ELSE <<exe.launch_options>>

\* if exe_info.get("launch_options"): exe_info["launch_options"].split()
LaunchOptions(exe) ==
    IF exe.launch_options = <<>> THEN <<>> ELSE Split(exe.launch_options)

\* cmd = [wine_cmd, exe_info["path"]] extended by the launch options
Command(exe, wine_cmd) == <<wine_cmd, exe.path>> \o LaunchOptions(exe)

IdleLaunch ==
    [pc |-> "idle", attempt |-> 0, exe_index |-> None, wine_cmd |-> NoWine,
     env |-> Unset, log |-> <<>>, result |-> ""]

\* the statement at pc has run and the call goes on at next
Step(what, next) == [launch EXCEPT !.pc = next, !.log = Append(@, what)]

\* the call returns with the result how
Return(what, how) ==
    [launch EXCEPT !.pc = "done", !.log = Append(@, what), !.result = how]

\* the handler is called with the item at row selected (None: no selection)
LaunchSelected(row) ==
    /\ launch.pc \in {"idle", "done"}
    /\ launch.attempt < MaxLaunches
    /\ IF row = None
       THEN UNCHANGED launch
       ELSE launch' = [IdleLaunch EXCEPT !.pc = "check_file",
                                        !.attempt = launch.attempt + 1,
                                        !.exe_index = exe_list[row + 1].data]
    /\ UNCHANGED <<host, spawned>>

\* if not os.path.exists(exe_info["path"]): "File not found", return
CheckFile ==
    /\ launch.pc = "check_file"
    /\ launch' = IF FileExists(host, exes[launch.exe_index + 1].path)
                 THEN Step("file_check", "find_wine")
                 ELSE Return("file_check", "MissingFile")
    /\ UNCHANGED <<host, spawned>>

\* wine_cmd = self.get_wine_command(); if not wine_cmd: return
FindWine ==
    /\ launch.pc = "find_wine"
    /\ launch' = IF FindWineBinary(host) = NoWine
                 THEN Return("find_runtime", "RuntimeUnavailable")
                 ELSE [Step("find_runtime", "build_env")
                          EXCEPT !.wine_cmd = FindWineBinary(host)]
    /\ UNCHANGED <<host, spawned>>

\* the environment and the command are built
BuildEnv ==
    /\ launch.pc = "build_env"
    /\ launch' = [Step("build_env", "spawn") EXCEPT
                     !.env = Environment(host, exes[launch.exe_index + 1],
                                         launch.wine_cmd)]
    /\ UNCHANGED <<host, spawned>>

\* subprocess.Popen(cmd, env=env): the process starts, or Popen raises and
\* "Failed to launch" is shown
Spawn ==
    /\ launch.pc = "spawn"
    /\ \/ /\ spawned' = Append(spawned,
                              [cmd |-> Command(exes[launch.exe_index + 1],
                                               launch.wine_cmd),
                               env |-> launch.env])
          /\ launch' = Return("spawn", "Spawned")
       \/ /\ launch' = Return("spawn", "LaunchError")
          /\ UNCHANGED spawned
    /\ UNCHANGED host

\* the statements of the handler after its selection test
LaunchRuns == CheckFile \/ FindWine \/ BuildEnv \/ Spawn

\* what launch_selected leaves as it is
registryVars ==
    <<exes, categories, exe_list, disk, backup, bottles, last, faults, ops, callers,
      installer>>

(* ----------------------- download_wine, install_wine ------------------- *)

\* the button enabled, no installer thread, no signal on its way
IdleInstaller ==
    [pc |-> "idle", button |-> TRUE, status |-> "", success |-> FALSE, runs |-> 0]

\* what the installer statements leave as it is
InstallFrame ==
    UNCHANGED <<exes, categories, exe_list, disk, backup, bottles, last, faults, ops,
                callers, launch, spawned>>

\* shutil.rmtree(wine_dir): nothing is left under wine_dir
Emptied(h) == [h EXCEPT !.wine_bin = "absent", !.nested = "absent", !.lib = FALSE]

\* wine_dir/bin/wine written and made executable
Scripted(h) == [Emptied(h) EXCEPT !.wine_bin = "executable"]

\* the archive extracted under wine_dir and the script pointed at its binary
Extracted(h) == [Scripted(h) EXCEPT !.nested = "executable", !.lib = TRUE]

\* download_wine, from the Install Wine button (which must be enabled to be
\* clicked) or from check_wine at startup: the button is disabled and the
\* installer thread started
DownloadWine ==
    /\ installer.pc = "idle"
    /\ installer.button
    /\ installer.runs < MaxInstalls
    /\ installer' = [installer EXCEPT !.pc = "prepare", !.button = FALSE,
                                      !.status = "Downloading Wine...",
                                      !.runs = @ + 1]
    /\ UNCHANGED host
    /\ InstallFrame

\* install_wine up to its try statement, in the thread: wine_dir removed and
\* made again, a temporary directory, wine_dir/bin/wine written and made
\* executable. An OSError of any of these calls is caught nowhere: it leaves
\* install_wine and WineInstallerThread.run, so finished is never emitted
Prepare ==
    /\ installer.pc = "prepare"
    /\ \/ /\ host' = Scripted(host)
          /\ installer' = [installer EXCEPT !.pc = "which"]
       \/ /\ host' \in {host, Emptied(host)}
          /\ installer' = [installer EXCEPT !.pc = "raised"]
    /\ InstallFrame

\* subprocess.run(["which", "wine"], check=True): return True if it is found
Which ==
    /\ installer.pc = "which"
    /\ installer' = IF host.system
                    THEN [installer EXCEPT !.pc = "emit", !.success = TRUE]
                    ELSE [installer EXCEPT !.pc = "download"]
    /\ UNCHANGED host
    /\ InstallFrame

\* the download and the two extraction attempts, every exception of which is
\* caught: True with the binary extracted, False otherwise
Download ==
    /\ installer.pc = "download"
    /\ \/ /\ host' = Extracted(host)
          /\ installer' = [installer EXCEPT !.pc = "emit", !.success = TRUE]
       \/ /\ UNCHANGED host
          /\ installer' = [installer EXCEPT !.pc = "emit", !.success = FALSE]
    /\ InstallFrame

\* self.finished.emit(success): the signal is queued for the main thread
Emit ==
    /\ installer.pc = "emit"
    /\ installer' = [installer EXCEPT !.pc = "emitted"]
    /\ UNCHANGED host
    /\ InstallFrame

\* download_wine_complete(success), in the main thread
DownloadWineComplete ==
    /\ installer.pc = "emitted"
    /\ installer' = [installer EXCEPT
                        !.pc = "idle",
                        !.button = TRUE,
                        !.status = IF installer.success
                                   THEN "Wine installed successfully"
                                   ELSE "Wine installation failed"]
    /\ UNCHANGED host
    /\ InstallFrame

\* the statements of the installer thread
InstallerRuns == Prepare \/ Which \/ Download \/ Emit

(* ---------------------------- specification ---------------------------- *)

\* __init__ with the store file holding d: the categories set at
\* construction, then load_exes, then create_ui (which calls refresh_list)
Startup(d, stored_bottles) ==
    /\ exes = LoadedExes(d)
    /\ categories = LoadedCategories(d)
    /\ exe_list = RefreshList(LoadedCategories(d), LoadedExes(d))
    /\ disk = d
    /\ bottles = stored_bottles
    /\ last = Outcome("init", "ok")
    /\ callers = Idle
    /\ launch = IdleLaunch
    /\ installer = IdleInstaller
    /\ spawned = <<>>

\* startup on no store file, or on the store an earlier session left
InitStore ==
    \/ Startup(NoFile, {}) /\ backup = NoFile
    \/ \E k \in 1..MaxStored :
          /\ Startup(StoredDocument(k), 0..(k - 1))
          /\ backup = IF k >= 2 THEN KindOf(StoredDocument(k)) ELSE NoFile

Init ==
    /\ host = InstalledHost
    /\ InitStore
    /\ faults = 0
    /\ ops = MaxOps

\* the outcome of a save that meets no failure; handlers that return before
\* their save are given no other
OkSave == <<"ok", "ok">>

DoAddExe ==
    \E filepath \in Paths \cup {""}, category \in SelectCategoryDialog(categories),
       mkdir_ok \in BOOLEAN, o \in SaveOutcomes :
        /\ (~mkdir_ok => faults > 0)
        /\ ((filepath = "" \/ category = "" \/ ~mkdir_ok) => o = OkSave)
        /\ AddExe(filepath, category, mkdir_ok, o)

DoMoveToCategory ==
    \E exe_index \in 0..(Len(exes) - 1), new_category \in CategoryNames, o \in SaveOutcomes :
        /\ (new_category \notin Keys(categories) => o = OkSave)
        /\ MoveToCategory(exe_index, new_category, o)

DoRemoveSelected ==
    \E row \in SelectableRows(exe_list) \cup {None}, reply_yes \in BOOLEAN,
       o \in SaveOutcomes :
        /\ ((row = None \/ ~reply_yes) => o = OkSave)
        /\ RemoveSelected(row, reply_yes, o)

Next ==
    \/ DoAddExe
    \/ DoMoveToCategory
    \/ DoRemoveSelected

Spec == Init /\ [][Next]_vars

\* the same program on a filesystem that may fail
InitFaults ==
    /\ host = InstalledHost
    /\ InitStore
    /\ faults = MaxFaults
    /\ ops = MaxFaultyOps

\* customize_exe on a position of the list or on the one past its end; the
\* dialog and the save are reached only on a position of the list
DoCustomizeExe ==
    \E exe_index \in 0..Len(exes), accepted \in BOOLEAN, o \in SaveOutcomes :
        \E texts \in IF IndexInRange(exes, exe_index)
                      THEN DialogTexts(exes[exe_index + 1]) ELSE {Edited} :
            /\ (~accepted => o = OkSave)
            /\ (~IndexInRange(exes, exe_index) => ~accepted)
            /\ CustomizeExe(exe_index, accepted, texts, o)

SpecFaults == InitFaults /\ [][Next]_vars

\* the four handlers that change the registry
NextEdit ==
    \/ DoAddExe
    \/ DoMoveToCategory
    \/ DoRemoveSelected
    \/ DoCustomizeExe

\* a first session, started without a store file, on a filesystem that may fail
InitPersist ==
    /\ host = InstalledHost
    /\ Startup(NoFile, {})
    /\ backup = NoFile
    /\ faults = MaxFaults
    /\ ops = MaxPersistOps

SpecPersist == InitPersist /\ [][NextEdit]_vars

(* ------------------------- the store at startup ------------------------ *)

\* the category tags of the entries of a legacy store; an entry may have none
LegacyTags == {"Games", "Other", ExtraCategory, Absent}

\* the entry a version without categories kept at position k, tagged tag
LegacyEntry(tag, k) == EntryToJson(ExeInfo("game.exe", tag, k))

\* the legacy stores of at most max entries
LegacyArrays(max) ==
    UNION {{[k \in 1..n |-> LegacyEntry(tags[k], k - 1)] : tags \in [1..n -> LegacyTags]}
           : n \in 0..max}

\* what the store file can hold when the program starts: nothing, something
\* json.load rejects, a document, or a legacy array of at most max entries
StoreFiles(max) ==
    {NoFile, Corrupt}
        \cup {StoredDocument(k) : k \in 1..MaxStored}
        \cup {LegacyDocument(js) : js \in LegacyArrays(max)}

\* the except branch of load_exes runs self.status_bar.showMessage before
\* create_ui has made self.status_bar: the AttributeError leaves __init__
LoadRaises(d) == d.kind = "Corrupt"

Off == Outcome("off", "ok")
Crashed == Outcome("init", "AttributeError")

Running == last # Off /\ last # Crashed

\* the program is started (again): __init__ with what the store file holds
StartApp ==
    /\ UNCHANGED launchVars
    /\ callers = Idle
    /\ UNCHANGED <<disk, backup, bottles, faults, ops, callers>>
    /\ IF LoadRaises(disk)
       THEN /\ last' = Crashed
            /\ exes' = <<>>
            /\ categories' = <<>>
            /\ exe_list' = <<>>
       ELSE /\ last' = Outcome("init", "ok")
            /\ exes' = LoadedExes(disk)
            /\ categories' = LoadedCategories(disk)
            /\ exe_list' = RefreshList(LoadedCategories(disk), LoadedExes(disk))

\* before the program starts: a store file and the bottles of its entries
Stopped(files, budget) ==
    /\ host = InstalledHost
    /\ launch = IdleLaunch
    /\ installer = IdleInstaller
    /\ spawned = <<>>
    /\ disk \in files
    /\ backup = NoFile
    /\ bottles = IF disk.kind \in {"document", "legacy"}
                 THEN 0..(Len(disk.exes) - 1) ELSE {}
    /\ exes = <<>>
    /\ categories = <<>>
    /\ exe_list = <<>>
    /\ last = Off
    /\ callers = Idle
    /\ faults = 0
    /\ ops = budget

\* startup alone, on every store file
InitLoad == Stopped(StoreFiles(MaxLegacy), 0)

SpecLoad == InitLoad /\ [][StartApp]_vars

\* sessions: the program is started, used, and started again
InitSession == Stopped(StoreFiles(MaxStored), MaxSessionOps)

NextSession ==
    \/ StartApp
    \/ Running /\ DoAddExe
    \/ Running /\ DoMoveToCategory
    \/ Running /\ DoRemoveSelected
    \/ Running /\ DoCustomizeExe

SpecSession == InitSession /\ [][NextSession]_vars

(* ------------------ add_exe, statement by statement -------------------- *)
(* Several add_exe calls whose statements interleave: nothing in the code  *)
(* serialises them (the class holds no lock).                              *)

AtPc(c, pc) == callers[c].pc = pc

Goto(c, pc) == callers' = [callers EXCEPT ![c].pc = pc]

\* the file dialog and the category dialog have returned
CallStart(c, filepath, category) ==
    /\ UNCHANGED launchVars
    /\ AtPc(c, "idle")
    /\ callers' = [callers EXCEPT ![c] =
                      [IdleCall EXCEPT !.pc = "bottle", !.filepath = filepath,
                                       !.category = category]]
    /\ UNCHANGED <<exes, categories, exe_list, disk, backup, bottles, last, faults, ops>>

\* bottle_name = f"bottle_{len(self.exes)}"; os.makedirs(bottle_path);
\* if category not in self.categories: self.categories[category] = []
CallBottle(c) ==
    /\ UNCHANGED launchVars
    /\ AtPc(c, "bottle")
    /\ bottles' = bottles \cup {BottleName(exes)}
    /\ categories' = WithCategory(categories, callers[c].category)
    /\ callers' = [callers EXCEPT ![c].pc = "append", ![c].bottle_name = BottleName(exes)]
    /\ UNCHANGED <<exes, exe_list, disk, backup, last, faults, ops>>

\* self.exes.append(exe_info)
CallAppend(c) ==
    /\ UNCHANGED launchVars
    /\ AtPc(c, "append")
    /\ exes' = Append(exes, ExeInfo(callers[c].filepath, callers[c].category,
                                    callers[c].bottle_name))
    /\ Goto(c, "index")
    /\ UNCHANGED <<categories, exe_list, disk, backup, bottles, last, faults, ops>>

\* new_index = len(self.exes) - 1
CallIndex(c) ==
    /\ UNCHANGED launchVars
    /\ AtPc(c, "index")
    /\ callers' = [callers EXCEPT ![c].pc = "member", ![c].new_index = Len(exes) - 1]
    /\ UNCHANGED <<exes, categories, exe_list, disk, backup, bottles, last, faults, ops>>

\* self.categories[category].append(new_index)
CallMember(c) ==
    /\ UNCHANGED launchVars
    /\ AtPc(c, "member")
    /\ categories' = AppendMember(categories, callers[c].category, callers[c].new_index)
    /\ Goto(c, "save")
    /\ UNCHANGED <<exes, exe_list, disk, backup, bottles, last, faults, ops>>

\* self.save_exes(); self.refresh_list(); the success message
CallSave(c) ==
    /\ UNCHANGED launchVars
    /\ AtPc(c, "save")
    /\ \E o \in SaveOutcomes :
          /\ SaveExes(exes, categories, o)
          /\ last' = Outcome("add_exe", IF SaveFailed(o) THEN "save_error" ELSE "ok")
    /\ exe_list' = RefreshList(categories, exes)
    /\ Goto(c, "done")
    /\ UNCHANGED <<exes, categories, bottles, ops>>

Quiescent == \A c \in Callers : callers[c].pc \in {"idle", "done"}

InitConcurrent ==
    /\ host = InstalledHost
    /\ InitStore
    /\ faults = 0
    /\ ops = 0

NextConcurrent ==
    \E c \in Callers :
        \/ \E filepath \in Paths, category \in SelectCategoryDialog(categories) :
              CallStart(c, filepath, category)
        \/ CallBottle(c)
        \/ CallAppend(c)
        \/ CallIndex(c)
        \/ CallMember(c)
        \/ CallSave(c)

SpecConcurrent == InitConcurrent /\ [][NextConcurrent]_vars

(* ------------------------------ launching ------------------------------ *)

\* the program after startup, on any machine
InitLaunch ==
    /\ InitStore
    /\ host \in Hosts
    /\ faults = 0
    /\ ops = 0

DoLaunchSelected ==
    \E row \in SelectableRows(exe_list) \cup {None} : LaunchSelected(row)

NextLaunch ==
    \/ DoLaunchSelected /\ UNCHANGED registryVars
    \/ CheckFile /\ UNCHANGED registryVars
    \/ FindWine /\ UNCHANGED registryVars
    \/ BuildEnv /\ UNCHANGED registryVars
    \/ Spawn /\ UNCHANGED registryVars

\* a handler that has been called runs to its end
SpecLaunch ==
    InitLaunch /\ [][NextLaunch]_vars /\ WF_vars(LaunchRuns /\ UNCHANGED registryVars)

(* ------------------- the category dialog cancelled --------------------- *)

\* add_exe with a file chosen or not, and the category dialog closed with
\* Cancel whatever its combo box shows
DoAddExeCancelled ==
    \E filepath \in Paths \cup {""}, current_text \in ComboItems(categories),
       o \in SaveOutcomes :
        /\ (filepath = "" => o = OkSave)
        /\ AddExe(filepath, DialogResult(FALSE, current_text), TRUE, o)

NextCancel ==
    \/ DoAddExeCancelled
    \/ DoMoveToCategory
    \/ DoRemoveSelected

SpecCancel == Init /\ [][NextCancel]_vars

(* --------------------------- show_context_menu ------------------------- *)

\* the test that lets show_context_menu go on: an item is selected and
\* `not selected_items[0].data(Qt.UserRole)` is false, which it is for every
\* number but 0
MenuOffered(rows, row) == row # None /\ rows[row + 1].data # 0

\* the entries of the menu, and none for a menu closed without a choice
MenuCommands == {"none", "launch", "customize", "move", "remove"}

\* show_context_menu with the item at row selected (None: no selection): the
\* menu is built for exes[exe_index], shown, and the chosen command called
ShowContextMenu(row, command, new_category, accepted, texts, reply_yes, o) ==
    /\ launch.pc \in {"idle", "done"}
    /\ IF ~MenuOffered(exe_list, row)
       THEN /\ last' = Outcome("show_context_menu", "no_menu")
            /\ UNCHANGED <<exes, categories, exe_list, disk, backup, bottles, faults,
                           ops, callers>>
            /\ UNCHANGED launchVars
       ELSE LET exe_index == exe_list[row + 1].data
            IN  IF ~IndexInRange(exes, exe_index)
                THEN \* exe = self.exes[exe_index] raises
                     /\ last' = Outcome("show_context_menu", "IndexError")
                     /\ UNCHANGED <<exes, categories, exe_list, disk, backup, bottles,
                                    faults, ops, callers>>
                     /\ UNCHANGED launchVars
                ELSE CASE command = "none" ->
                            /\ last' = Outcome("show_context_menu", "menu")
                            /\ UNCHANGED <<exes, categories, exe_list, disk, backup,
                                           bottles, faults, ops, callers>>
                            /\ UNCHANGED launchVars
                       [] command = "launch" ->
                            LaunchSelected(row) /\ UNCHANGED registryVars
                       [] command = "customize" ->
                            CustomizeExe(exe_index, accepted, texts, o)
                       [] command = "move" ->
                            /\ new_category \in Keys(categories)
                            /\ new_category # exes[exe_index + 1].category
                            /\ MoveToCategory(exe_index, new_category, o)
                       [] command = "remove" ->
                            RemoveSelected(row, reply_yes, o)

DoShowContextMenu ==
    \E row \in SelectableRows(exe_list) \cup {None}, command \in MenuCommands,
       new_category \in CategoryNames, accepted \in BOOLEAN, reply_yes \in BOOLEAN,
       o \in SaveOutcomes :
        /\ (command # "move" => new_category = "Games")
        /\ (command # "customize" => accepted)
        /\ (command # "remove" => reply_yes)
        /\ (command \in {"none", "launch"} => o = OkSave)
        /\ ShowContextMenu(row, command, new_category, accepted, Edited, reply_yes, o)

\* the program after startup, the user working through the context menu
InitMenu ==
    /\ host = InstalledHost
    /\ InitStore
    /\ faults = 0
    /\ ops = MaxSessionOps

NextMenu ==
    \/ DoShowContextMenu
    \/ CheckFile /\ UNCHANGED registryVars
    \/ FindWine /\ UNCHANGED registryVars
    \/ BuildEnv /\ UNCHANGED registryVars
    \/ Spawn /\ UNCHANGED registryVars

SpecMenu == InitMenu /\ [][NextMenu]_vars

(* ------------------------------ installing ----------------------------- *)

NextInstall ==
    \/ DownloadWine
    \/ Prepare
    \/ Which
    \/ Download
    \/ Emit
    \/ DownloadWineComplete

\* the installer thread runs on once started, and the event loop of the main
\* thread delivers a queued signal
SpecInstall ==
    /\ InitLaunch
    /\ [][NextInstall]_vars
    /\ WF_vars(InstallerRuns)
    /\ WF_vars(DownloadWineComplete)

(* ----------------------- what a launch hands to Wine ------------------ *)

Chars == {"a", "b", " "}

\* what the launch options input of customize_exe can have been given
OptionTexts == UNION {[1..n -> Chars] : n \in 0..MaxText}

\* machines on which a launch gets as far as Popen: the file is there, and
\* Wine is either the bundled binary or the one `which wine` finds
LaunchableHosts ==
    {h \in Hosts : /\ h.files = {"game.exe"}
                   /\ h.lib
                   /\ h.nested = "absent"
                   /\ h.wine_bin \in {"absent", "executable"}
                   /\ h.system = ~Usable(h.wine_bin)}

\* the registry an earlier session left: k registrations, or one more with
\* the first entry removed since; the first entry customized with text
LeftRegistry(k, removed, text) ==
    LET reg == StoredRegistry(IF removed THEN k + 1 ELSE k)
        ex == IF removed THEN DelAt(reg.exes, 0) ELSE reg.exes
    IN  [exes |-> [ex EXCEPT ![1].launch_options = text], categories |-> reg.categories]

\* started on such a store, the bottle directories in place or all missing
InitArgs ==
    /\ \E k \in 1..MaxStored, removed \in BOOLEAN, text \in OptionTexts,
          present \in BOOLEAN :
          LET reg == LeftRegistry(k, removed, text)
          IN  Startup(Document(reg.exes, reg.categories),
                      IF present THEN {reg.exes[j].bottle : j \in DOMAIN reg.exes} ELSE {})
    /\ backup = NoFile
    /\ host \in LaunchableHosts
    /\ faults = 0
    /\ ops = 0

SpecArgs == InitArgs /\ [][NextLaunch]_vars

(* ------------------- refresh_list on any category index --------------- *)

\* what a member list of a stored index can hold: positions of entries and
\* numbers that are the position of no entry, on either side
References == (-(MaxStored + 1))..MaxStored

ReferenceLists == UNION {[1..n -> References] : n \in 0..MaxRefs}

\* k entries filed under Games, and any references under Productivity
InitRefresh ==
    /\ host = InstalledHost
    /\ launch = IdleLaunch
    /\ installer = IdleInstaller
    /\ spawned = <<>>
    /\ \E k \in 0..MaxStored, refs \in ReferenceLists :
          /\ exes = StoredRegistry(k).exes
          /\ categories = SetMembers(StoredRegistry(k).categories, "Productivity", refs)
          /\ bottles = 0..(k - 1)
    /\ exe_list = <<>>
    /\ disk = NoFile
    /\ backup = NoFile
    /\ last = Off
    /\ callers = Idle
    /\ faults = 0
    /\ ops = 0

\* refresh_list: the widget is filled; an exception is caught and shown
DoRefreshList ==
    /\ UNCHANGED launchVars
    /\ exe_list' = RefreshList(categories, exes)
    /\ last' = Outcome("refresh_list",
                       IF RefreshRaises(categories, exes) THEN "IndexError" ELSE "ok")
    /\ UNCHANGED <<exes, categories, disk, backup, bottles, faults, ops, callers>>

SpecRefresh == InitRefresh /\ [][DoRefreshList]_vars

(* ----------------- save_exes, statement by statement ------------------- *)
(* One add_exe call after another, each running save_exes one filesystem   *)
(* call at a time, so that the store and its backup are seen between them. *)

\* what open(exes_file, 'w') leaves before anything is written: an empty file
Truncated == Corrupt

\* save_exes is over: refresh_list and the message of add_exe follow
CallEnds(c, how) ==
    /\ last' = Outcome("add_exe", how)
    /\ exe_list' = RefreshList(categories, exes)
    /\ Goto(c, "done")

\* if os.path.exists(self.exes_file): shutil.copy2(self.exes_file, backup_file)
SaveCopy(c) ==
    /\ UNCHANGED launchVars
    /\ AtPc(c, "save")
    /\ \E bk \in BackupOutcomes :
          /\ (bk # "ok" => disk # NoFile /\ faults > 0)
          /\ backup' = BackupAfter(bk)
          /\ faults' = faults - (IF bk # "ok" THEN 1 ELSE 0)
    /\ Goto(c, "open")
    /\ UNCHANGED <<exes, categories, exe_list, disk, bottles, last, ops>>

\* with open(self.exes_file, 'w') as f: the file is truncated, or open raises
SaveOpen(c) ==
    /\ UNCHANGED launchVars
    /\ AtPc(c, "open")
    /\ \/ /\ disk' = Truncated
          /\ Goto(c, "dump")
          /\ UNCHANGED <<exe_list, last, faults>>
       \/ /\ faults > 0
          /\ faults' = faults - 1
          /\ CallEnds(c, "save_error")
          /\ UNCHANGED disk
    /\ UNCHANGED <<exes, categories, backup, bottles, ops>>

\* json.dump(..., f, indent=2): the document is written, or the write stops
\* partway
SaveDump(c) ==
    /\ UNCHANGED launchVars
    /\ AtPc(c, "dump")
    /\ \/ /\ disk' = Document(exes, categories)
          /\ CallEnds(c, "ok")
          /\ UNCHANGED faults
       \/ /\ faults > 0
          /\ faults' = faults - 1
          /\ disk' = Corrupt
          /\ CallEnds(c, "save_error")
    /\ UNCHANGED <<exes, categories, backup, bottles, ops>>

\* the handler has returned and the next call can be made
CallReturn(c) ==
    /\ UNCHANGED launchVars
    /\ AtPc(c, "done")
    /\ ops > 0
    /\ ops' = ops - 1
    /\ callers' = [callers EXCEPT ![c] = IdleCall]
    /\ UNCHANGED <<exes, categories, exe_list, disk, backup, bottles, last, faults>>

\* the one caller of a program whose handlers run one after another
Handler == "t1"

\* started on a store that holds a committed document
InitSave ==
    /\ host = InstalledHost
    /\ \E k \in 1..MaxStored :
          /\ Startup(StoredDocument(k), 0..(k - 1))
          /\ backup = IF k >= 2 THEN KindOf(StoredDocument(k)) ELSE NoFile
    /\ faults = MaxFaults
    /\ ops = MaxFaultyOps

NextSave ==
    \/ \E filepath \in Paths, category \in SelectCategoryDialog(categories) :
          CallStart(Handler, filepath, category)
    \/ CallBottle(Handler)
    \/ CallAppend(Handler)
    \/ CallIndex(Handler)
    \/ CallMember(Handler)
    \/ SaveCopy(Handler)
    \/ SaveOpen(Handler)
    \/ SaveDump(Handler)
    \/ CallReturn(Handler)

SpecSave == InitSave /\ [][NextSave]_vars

(* ------------------------------- claims -------------------------------- *)

\* the categories whose member list holds position i
Holding(cats, i) == {k \in DOMAIN cats : i \in Range(cats[k].members)}

\* number of times position i occurs in member list m
Occurrences(m, i) == Cardinality({k \in DOMAIN m : m[k] = i})

\* every position of ex is held once, by the category its entry names, and
\* no member list holds a position without an entry
Consistent(ex, cats) ==
    /\ \A i \in 0..(Len(ex) - 1) :
          /\ Cardinality(Holding(cats, i)) = 1
          /\ \A k \in Holding(cats, i) :
                /\ cats[k].name = ex[i + 1].category
                /\ Occurrences(cats[k].members, i) = 1
    /\ \A k \in DOMAIN cats : \A i \in Range(cats[k].members) : i < Len(ex)

Succeeded == last.outcome = "ok"

\* C1: after every add_exe, move_to_category or remove_selected that reports
\* success, every position of exes is in exactly one member list, the one of
\* the entry's own category, and no member list holds a position without an entry.
C1_IndexConsistent == Succeeded => Consistent(exes, categories)

\* this step is remove_selected on row, confirmed, deleting an entry
Removes(row) ==
    /\ ops' = ops - 1
    /\ \E o \in SaveOutcomes : RemoveSelected(row, TRUE, o)

\* C2: remove_selected on a selected row deletes the entry that row shows
\* (its UserRole data), leaves every other entry as it was, shortens that
\* entry's category member list by one, and stores the result.
C2_RemoveDeletesSelected ==
    [][\A row \in SelectableRows(exe_list) :
          Removes(row) =>
             LET d == exe_list[row + 1].data
                 cat == exes[d + 1].category
             IN  /\ exes' = DelAt(exes, d)
                 /\ Len(Members(categories', cat)) = Len(Members(categories, cat)) - 1
                 /\ disk' = Document(exes', categories')]_vars

\* C3: no two registered entries have the same bottle.
C3_BottlesDistinct ==
    \A i, j \in DOMAIN exes : i # j => exes[i].bottle # exes[j].bottle

\* C4: once interleaved add_exe calls have all finished, no member list holds
\* a position that exes does not have, and every position of exes is in the index.
C4_NoAppendLost ==
    (Quiescent /\ (\E c \in Callers : callers[c].pc = "done")) =>
        /\ \A k \in DOMAIN categories :
              \A i \in Range(categories[k].members) : i < Len(exes)
        /\ \A i \in 0..(Len(exes) - 1) : Holding(categories, i) # {}

Failures == {"error", "save_error", "IndexError", "KeyError", "ValueError"}

\* C5: a handler that ends in failure leaves exes and categories as they
\* were before it ran.
C5_FailureLeavesRegistry ==
    [][last'.outcome \in Failures => (exes' = exes /\ categories' = categories)]_vars

\* C6: add_exe on a path without the .exe extension registers nothing: exes,
\* categories and the store file stay as they were.
C6_InvalidPathRejected ==
    [][\A filepath \in Paths, category \in SelectCategoryDialog(categories),
          o \in SaveOutcomes :
          (~HasExeExtension(filepath) /\ AddExe(filepath, category, TRUE, o)) =>
              (exes' = exes /\ categories' = categories /\ disk' = disk)]_vars

C8_MoveToSameIdempotent ==
    [][\A exe_index \in 0..(Len(exes) - 1), o \in SaveOutcomes :
          MoveToCategory(exe_index, exes[exe_index + 1].category, o) =>
              (exes' = exes /\ categories' = categories)]_vars

\* C9: a move_to_category that succeeds, to a different existing category,
\* ends with the position absent from the old member list, last in the new
\* one, the entry's category field updated, and everything else unchanged.
C9_MoveEffect ==
    [][\A exe_index \in 0..(Len(exes) - 1), new_category \in Keys(categories),
          o \in SaveOutcomes :
          LET old_category == exes[exe_index + 1].category
          IN  (/\ new_category # old_category
               /\ ops' = ops - 1
               /\ MoveToCategory(exe_index, new_category, o)) =>
                  /\ exe_index \notin Range(Members(categories', old_category))
                  /\ Members(categories', new_category)
                        = Append(Members(categories, new_category), exe_index)
                  /\ exes' = [exes EXCEPT ![exe_index + 1].category = new_category]
                  /\ \A k \in DOMAIN categories :
                        categories[k].name \notin {old_category, new_category} =>
                            categories'[k] = categories[k]]_vars

\* C10: move_to_category to a name that is not yet a category creates the
\* category and ends with the position in its member list, without failing.
C10_MoveCreatesCategory ==
    [][\A exe_index \in 0..(Len(exes) - 1), new_category \in CategoryNames,
          o \in SaveOutcomes :
          (new_category \notin Keys(categories)
             /\ MoveToCategory(exe_index, new_category, o)) =>
              /\ new_category \in Keys(categories')
              /\ exe_index \in Range(Members(categories', new_category))
              /\ last'.outcome \notin Failures]_vars

\* the handlers that change the registry and save it
Mutations == {"add_exe", "customize_exe", "move_to_category", "remove_selected"}

\* the last handler changed the registry and its save succeeded
Saved == last.op \in Mutations /\ last.outcome = "ok"

\* C11: when a register, rename, move or remove has saved the registry and the
\* program is started again, load_exes gives back the same entries in the
\* same order with the same fields, and the same member list for every
\* category.
C11_SaveLoadRoundTrip ==
    [][(Saved /\ last'.op = "init") =>
          (last' = Outcome("init", "ok") /\ exes' = exes /\ categories' = categories)]_vars

\* C11 witness: the program runs on the store a handler of an earlier
\* session saved.
C11_Witness ==
    /\ last = Outcome("init", "ok")
    /\ ops < MaxSessionOps
    /\ disk = Document(exes, categories)
    /\ exes # <<>>

\* the positions in s are in increasing order
Increasing(s) == \A i, j \in DOMAIN s : i < j => s[i] < s[j]

\* startup has just loaded a legacy store
LegacyLoaded == last = Outcome("init", "ok") /\ disk.kind = "legacy"

\* C12 as stated: after a legacy array is loaded the categories are the three
\* built-in ones plus every category an entry names, and each member list is
\* exactly the positions of the entries tagged with that category, increasing.
C12_LegacyRebuildTagged ==
    LegacyLoaded =>
        /\ Keys(categories)
              = Range(BuiltIn) \cup ({exes[k].category : k \in DOMAIN exes} \ {Absent})
        /\ \A name \in Keys(categories) :
              /\ Increasing(Members(categories, name))
              /\ Range(Members(categories, name))
                    = {k - 1 : k \in {j \in DOMAIN exes : exes[j].category = name}}

\* C12 amended: the same, where an entry that carries no category counts as
\* tagged "Other"; built-in categories no entry is filed under are present
\* and empty.
C12_LegacyRebuild ==
    LegacyLoaded =>
        /\ Keys(categories)
              = Range(BuiltIn) \cup ({exes[k].category : k \in DOMAIN exes} \ {Absent})
        /\ \A name \in Keys(categories) :
              /\ Increasing(Members(categories, name))
              /\ Range(Members(categories, name))
                    = {k - 1 : k \in {j \in DOMAIN exes :
                          \/ exes[j].category = name
                          \/ exes[j].category = Absent /\ name = "Other"}}

\* C12 witness: a legacy store of three entries has been loaded, the first
\* and third tagged Games and the second carrying no category.
C12_Witness ==
    /\ LegacyLoaded
    /\ Len(exes) = 3
    /\ exes[2].category = Absent
    /\ Members(categories, "Games") = <<0, 2>>
    /\ Members(categories, "Other") = <<1>>
    /\ Members(categories, "Productivity") = <<>>

\* C13: started on a store file that json.load rejects, the program keeps
\* running, with no entries and the three built-in categories, each empty.
C13_CorruptStoreTolerated ==
    (disk = Corrupt /\ last # Off) =>
        /\ last = Outcome("init", "ok")
        /\ exes = <<>>
        /\ categories = InitialCategories

\* C14: started without a store file, the program runs with no entries and
\* exactly the categories Games, Productivity, Other, each with no members.
C14_MissingStoreEmpty ==
    (disk = NoFile /\ last # Off) =>
        /\ last = Outcome("init", "ok")
        /\ exes = <<>>
        /\ Len(categories) = Len(BuiltIn)
        /\ \A k \in DOMAIN BuiltIn :
              categories[k] = [name |-> BuiltIn[k], members |-> <<>>]

\* C14 witness: the program has started without a store file.
C14_Witness == disk = NoFile /\ last = Outcome("init", "ok") /\ exe_list # <<>>

\* C17: while the program runs the categories Games, Productivity and Other
\* exist, and a category that exists still exists after every load, register,
\* rename, move and remove, also when its member list has become empty.
C17_CategoriesKept ==
    /\ [](Running => Range(BuiltIn) \subseteq Keys(categories))
    /\ [][(Running /\ Running') => Keys(categories) \subseteq Keys(categories')]_vars

\* C17 witness: a move has emptied the member list of Games, and Games is
\* still a category.
C17_Witness ==
    /\ last = Outcome("move_to_category", "ok")
    /\ disk = Document(exes, categories)
    /\ exes # <<>>
    /\ Members(categories, "Games") = <<>>

C15_StoreOrBackupComplete == disk.kind = "document" \/ backup.kind = "document"

\* the positions in members that are the position of an entry of ex
Resolvable(members, ex) == SelectSeq(members, LAMBDA i : 0 <= i /\ i < Len(ex))

\* header, one row per resolvable member, spacer, for the categories from k on
RECURSIVE Enumerated(_, _, _)
Enumerated(cats, k, ex) ==
    IF k > Len(cats) THEN <<>>
    ELSE <<HeaderRow>>
         \o [j \in 1..Len(Resolvable(cats[k].members, ex)) |->
                ItemRow(Resolvable(cats[k].members, ex)[j])]
         \o <<SpacerRow>> \o Enumerated(cats, k + 1, ex)

\* C18: refresh_list does not fail, whatever references the member lists
\* hold and also with no entries, and lists every category with exactly its
\* references that are the position of an entry, skipping the others.
C18_DanglingSkipped ==
    last.op = "refresh_list" =>
        /\ last.outcome = "ok"
        /\ exe_list = Enumerated(categories, 1, exes)

\* no Wine binary can be found on the machine
NoRuntime(h) == h.wine_bin # "executable" /\ h.nested # "executable" /\ ~h.system

\* the entry the launch_selected call is about
Launched == exes[launch.exe_index + 1]

\* C19: on a machine where no Wine binary can be found, launch_selected on an
\* entry ends in failure, RuntimeUnavailable when the file of the entry
\* exists, without starting a process, and no step of it changes the
\* application list, the category index or the bottle directories.
C19_NoRuntimeNoSpawn ==
    /\ [](NoRuntime(host) =>
            /\ spawned = <<>>
            /\ launch.pc = "done" =>
                  /\ launch.result \in {"RuntimeUnavailable", "MissingFile"}
                  /\ Launched.path \in host.files => launch.result = "RuntimeUnavailable")
    /\ [][(NoRuntime(host) /\ launch' # launch) =>
             UNCHANGED <<exes, categories, bottles, disk, spawned>>]_vars

\* C19 witness: a launch has ended for want of a Wine binary.
C19_Witness ==
    /\ NoRuntime(host)
    /\ launch.pc = "done"
    /\ launch.result = "RuntimeUnavailable"

\* the statements of launch_selected in the order of the claim
LaunchOrder == <<"file_check", "find_runtime", "build_env", "spawn">>

IsPrefix(s, t) == Len(s) <= Len(t) /\ \A k \in DOMAIN s : s[k] = t[k]

\* C20: a launch_selected call tests the file of the entry before it looks
\* for Wine and builds the environment only once Wine is found; it ends, and
\* ends either spawned or failed; it starts at most one process, and none
\* when the file is missing or Wine is not found; a call that has ended
\* does nothing more until launch_selected is called again.
C20_LaunchOrder ==
    /\ [](/\ IsPrefix(launch.log, LaunchOrder)
          /\ launch.pc = "done" =>
                /\ launch.result \in {"Spawned", "MissingFile", "RuntimeUnavailable",
                                      "LaunchError"}
                /\ launch.result \in {"Spawned", "LaunchError"} <=> launch.log = LaunchOrder
                /\ Launched.path \notin host.files =>
                      launch.result = "MissingFile" /\ launch.log = <<"file_check">>
                /\ (Launched.path \in host.files /\ NoRuntime(host)) =>
                      /\ launch.result = "RuntimeUnavailable"
                      /\ launch.log = <<"file_check", "find_runtime">>)
    /\ [][/\ spawned' # spawned =>
                /\ Len(spawned') = Len(spawned) + 1
                /\ launch.log = <<"file_check", "find_runtime", "build_env">>
                /\ launch'.result = "Spawned"
                /\ Launched.path \in host.files
                /\ ~NoRuntime(host)
          /\ (launch.pc = "done" /\ launch' # launch) =>
                /\ launch'.attempt = launch.attempt + 1
                /\ launch'.log = <<>>
                /\ spawned' = spawned]_vars
    /\ (launch.pc \notin {"idle", "done"}) ~> (launch.pc = "done")

\* C20 witness: one call has failed, the next has started a process.
C20_Witness ==
    /\ launch.pc = "done"
    /\ launch.attempt = 2
    /\ launch.result = "Spawned"
    /\ Len(spawned) = 1

\* the process the launch_selected call has started
Process == spawned[Len(spawned)]

HasSpawned == launch.pc = "done" /\ launch.result = "Spawned"

\* the positions where a word of text begins, and where one ends
WordStarts(text) ==
    {i \in DOMAIN text : text[i] # " " /\ (i = 1 \/ text[i - 1] = " ")}

WordEnds(text) ==
    {i \in DOMAIN text : text[i] # " " /\ (i = Len(text) \/ text[i + 1] = " ")}

\* the k-th smallest member of the set of numbers S
Nth(S, k) == CHOOSE i \in S : Cardinality({j \in S : j < i}) = k - 1

\* C21: the argument vector of a started process is the Wine binary that was
\* found, then the path of the entry, then the words of the entry's launch
\* options in their order, a word being a longest run of characters other
\* than whitespace; with no launch options it is the first two alone.
C21_ArgumentVector ==
    HasSpawned =>
        LET text == Launched.launch_options
            cmd == Process.cmd
        IN  /\ cmd[1] = launch.wine_cmd
            /\ cmd[1] # NoWine
            /\ cmd[2] = Launched.path
            /\ Len(cmd) = 2 + Cardinality(WordStarts(text))
            /\ \A k \in 1..Cardinality(WordStarts(text)) :
                  cmd[2 + k] = SubSeq(text, Nth(WordStarts(text), k), Nth(WordEnds(text), k))

\* C21 witness: an entry whose launch options are "b a" has been launched.
C21_Witness == HasSpawned /\ Launched.launch_options = <<"b", " ", "a">>

C23_PrefixIsOwnBottle ==
    HasSpawned => Process.env.WINEPREFIX = <<"bottles_dir", Launched.bottle>>

\* C23 witness: the launched entry stands at a position other than the number
\* of its bottle, and the directory add_exe made for it is in place.
C23_Witness ==
    /\ HasSpawned
    /\ Launched.bottle # launch.exe_index
    /\ Launched.bottle \in bottles

\* C24: when a process is started, the bottle directory of the launched entry
\* exists.
C24_BottleExistsAtSpawn ==
    HasSpawned => Launched.bottle \in bottles

\* what get_wine_command gave the launch_selected call that asked for it
Located == IF launch.result = "RuntimeUnavailable" THEN NoWine ELSE launch.wine_cmd

\* C25: the Wine binary that is found is wine_dir/bin/wine when that file is
\* there and executable, whatever the system has; otherwise an executable file
\* named wine elsewhere under wine_dir; otherwise the binary `which wine`
\* finds; otherwise none. A file that is absent or not executable is never
\* the one found.
C25_FindWinePrecedence ==
    Len(launch.log) >= 2 =>
        /\ Usable(host.wine_bin) => Located = BundledWine
        /\ ~Usable(host.wine_bin) /\ Usable(host.nested) => Located = NestedWine
        /\ ~Usable(host.wine_bin) /\ ~Usable(host.nested) /\ host.system =>
              Located = SystemWine
        /\ NoRuntime(host) => Located = NoWine
        /\ Located = BundledWine => host.wine_bin = "executable"
        /\ Located = NestedWine => host.nested = "executable"
        /\ Located = SystemWine => host.system

\* C25 witness: wine_dir/bin/wine is there without the execute permission,
\* another wine under wine_dir is executable, the system has Wine too, and the
\* one under wine_dir was found.
C25_Witness ==
    /\ Len(launch.log) >= 2
    /\ host.wine_bin = "plain"
    /\ host.nested = "executable"
    /\ host.system
    /\ Located = NestedWine

\* the entries at position j before and after a step differ
Differs(j) == exes'[j] # exes[j]

\* C26: a customize_exe call changes at most one entry, and of that entry only
\* custom_name, launch_options and notes: its position, name, path, bottle and
\* category, every other entry, the category lists and the bottle directories
\* stay as they were; on a position that is not in the list the call fails
\* and nothing at all is changed, on disk either.
C26_CustomizeFrame ==
    [][last'.op = "customize_exe" =>
          /\ categories' = categories
          /\ bottles' = bottles
          /\ Len(exes') = Len(exes)
          /\ Cardinality({j \in DOMAIN exes : Differs(j)}) <= 1
          /\ \A j \in DOMAIN exes :
                /\ exes'[j].name = exes[j].name
                /\ exes'[j].path = exes[j].path
                /\ exes'[j].bottle = exes[j].bottle
                /\ exes'[j].category = exes[j].category
          /\ last'.outcome = "IndexError" =>
                /\ exes' = exes
                /\ exe_list' = exe_list
                /\ disk' = disk
                /\ backup' = backup]_vars

\* C26 witness: of two entries the second has been customized and saved, the
\* first still as it was registered.
C26_Witness ==
    /\ last = Outcome("customize_exe", "ok")
    /\ Len(exes) = 2
    /\ exes[2].custom_name = Edited.custom_name
    /\ exes[2].launch_options = Edited.launch_options
    /\ exes[1].custom_name # Edited.custom_name

\* C27: an installation that was started is in the end reported by
\* download_wine_complete, successful or not, and the Install Wine button is
\* enabled again.
C27_InstallReported ==
    (installer.pc # "idle") ~> (installer.pc = "idle" /\ installer.button)

\* C28: an add_exe call whose category dialog is cancelled registers
\* nothing: the entries, the category lists, the bottle directories and the
\* store file are as before the call.
C28_CancelRegistersNothing ==
    [][last'.op = "add_exe" =>
          /\ exes' = exes
          /\ categories' = categories
          /\ bottles' = bottles
          /\ disk' = disk]_vars

\* the rows refresh_list gives for the registry as it is now
Listing == RefreshList(categories, exes)

\* the rows of Listing that show the entry at position i of the list
RowsOf(i) == {r \in DOMAIN Listing : Listing[r] = ItemRow(i)}

\* the category whose header is the last one above row r
ShownUnder(r) ==
    categories[Cardinality({j \in 1..r : Listing[j].kind = "header"})].name

\* C29: the listing by category has exactly one row for every entry of the
\* list, below the header of the category named in the entry, and no row for
\* anything that is not an entry of the list.
C29_ListingShowsEachOnce ==
    /\ \A i \in 0..(Len(exes) - 1) :
          /\ Cardinality(RowsOf(i)) = 1
          /\ \A r \in RowsOf(i) : ShownUnder(r) = exes[i + 1].category
    /\ \A r \in DOMAIN Listing :
          Listing[r].kind = "item" => Listing[r].data \in 0..(Len(exes) - 1)

\* C30: for every entry shown in the list, whatever its position in
\* self.exes, position 0 too, the context menu with its commands is offered
\* when the row of the entry is the selected one.
C30_MenuForEverySelected ==
    \A row \in SelectableRows(exe_list) : MenuOffered(exe_list, row)

====
